---------------------------- MODULE Spec2Model ----------------------------
(***************************************************************************)
(* Model of the availability planner in src/vs/main.py: the half-hour slot *)
(* grid, the SQLite availability table (save / load / delete), the per-day *)
(* intersection of the chosen persons' slots and the merge of adjacent     *)
(* half-hour slots into hour blocks.                                       *)
(*                                                                         *)
(* A time string "HH:MM" is the pair <<hh, mm>>; a slot label              *)
(* "HH:MM-HH:MM" is the 4-tuple <<hh, mm, hh, mm>>.  Parsing and           *)
(* formatting are computed on these fields as the code computes them.      *)
(***************************************************************************)
EXTENDS Integers, Sequences, FiniteSets

VARIABLES
    pc,              \* position of the modelled call or script run
    start_str,       \* generate_halfhour_slots: argument start_str
    end_str,         \* generate_halfhour_slots: argument end_str
    slots,           \* generate_halfhour_slots: returned list
    halfhour_list,   \* find_hour_blocks: argument
    blocks,          \* find_hour_blocks: returned list
    selected_data,   \* find_common_slots: argument selected_data
    meeting_length,  \* find_common_slots: argument meeting_length
    common,          \* find_common_slots: returned mapping day -> list
    raised,          \* find_common_slots: the exception raised, or "none"
    rows,            \* committed content of table verfuegbarkeit, in id order
    data,            \* main: data = load_data(conn) of the current script run
    lastSave,        \* history: person -> data_dict of the save still in force
    conn             \* per connection (one per script run): position, open
                     \* transaction, loaded data

vars == <<pc, start_str, end_str, slots, halfhour_list, blocks, selected_data,
          meeting_length, common, raised, rows, data, lastSave, conn>>

-----------------------------------------------------------------------------
(* 1) Configuration                                                        *)

TAGE == <<"Montag", "Dienstag", "Mittwoch", "Donnerstag", "Freitag">>

PERSONEN == <<"Dodi", "Noah", "Juri", "Scoddy", "Jakob", "Johann">>

Range(s) == {s[i] : i \in 1..Len(s)}

TageSet == Range(TAGE)

\* datetime.strptime(s, "%H:%M"): minutes since midnight of the parsed day
strptime(s) == s[1] * 60 + s[2]

\* dt.strftime("%H:%M") of a datetime t minutes after that midnight: the
\* date part is not printed, so the hour wraps at 24
strftime(t) == <<(t \div 60) % 24, t % 60>>

\* f"{a}-{b}"
MakeLabel(a, b) == <<a[1], a[2], b[1], b[2]>>

\* label.split("-")[0] and label.split("-")[1]
SplitStart(label) == <<label[1], label[2]>>

SplitEnd(label) == <<label[3], label[4]>>

RECURSIVE SlotLoop(_, _, _)
SlotLoop(current, end_dt, acc) ==
    IF current < end_dt
    THEN IF current + 30 > end_dt
         THEN acc
         ELSE SlotLoop(current + 30, end_dt,
                       Append(acc, MakeLabel(strftime(current), strftime(current + 30))))
    ELSE acc

RECURSIVE SlotLoopStrict(_, _, _)
SlotLoopStrict(current, end_dt, acc) ==
    IF current < end_dt
    THEN IF current + 30 >= end_dt
         THEN acc
         ELSE SlotLoopStrict(current + 30, end_dt,
                       Append(acc, MakeLabel(strftime(current), strftime(current + 30))))
    ELSE acc

\* variant: the break test is slot_end >= end_dt, losing the last full slot
generate_halfhour_slots_strict(s, e) == SlotLoopStrict(strptime(s), strptime(e), <<>>)

generate_halfhour_slots(s, e) == SlotLoop(strptime(s), strptime(e), <<>>)

HALF_HOUR_SLOTS == generate_halfhour_slots(<<12, 0>>, <<21, 30>>)

slot_to_minutes(slot_label) == SplitStart(slot_label)[1] * 60 + SplitStart(slot_label)[2]


\* list.sort(key=slot_to_minutes) / sorted(..., key=slot_to_minutes): a stable
\* sort, modelled as insertion after the last element whose key is not larger
RECURSIVE InsertByStart(_, _)
InsertByStart(sorted_list, x) ==
    IF sorted_list = <<>>
    THEN <<x>>
    ELSE IF slot_to_minutes(x) < slot_to_minutes(Head(sorted_list))
         THEN <<x>> \o sorted_list
         ELSE <<Head(sorted_list)>> \o InsertByStart(Tail(sorted_list), x)

RECURSIVE SortByStart(_)
SortByStart(list) ==
    IF list = <<>>
    THEN <<>>
    ELSE InsertByStart(SortByStart(SubSeq(list, 1, Len(list) - 1)), list[Len(list)])

\* list(set_slots): the elements of a set in some order (the labels used here
\* have pairwise different start times, so the sort fixes the final order)
RECURSIVE SetToList(_)
SetToList(S) ==
    IF S = {}
    THEN <<>>
    ELSE LET x == CHOOSE y \in S : TRUE
         IN  <<x>> \o SetToList(S \ {x})

-----------------------------------------------------------------------------
(* 3) Common slots                                                         *)

\* the while loop of find_hour_blocks; i is the 1-based position
RECURSIVE HourLoop(_, _, _)
HourLoop(list, i, result) ==
    IF i < Len(list)
    THEN IF slot_to_minutes(list[i + 1]) = slot_to_minutes(list[i]) + 30
         THEN HourLoop(list, i + 2,
                       Append(result, MakeLabel(SplitStart(list[i]), SplitEnd(list[i + 1]))))
         ELSE HourLoop(list, i + 1, result)
    ELSE result

\* variant: after a merge the scan advances by one slot only
RECURSIVE HourLoopOverlap(_, _, _)
HourLoopOverlap(list, i, result) ==
    IF i < Len(list)
    THEN IF slot_to_minutes(list[i + 1]) = slot_to_minutes(list[i]) + 30
         THEN HourLoopOverlap(list, i + 1,
                       Append(result, MakeLabel(SplitStart(list[i]), SplitEnd(list[i + 1]))))
         ELSE HourLoopOverlap(list, i + 1, result)
    ELSE result

find_hour_blocks_overlap(list) == HourLoopOverlap(list, 1, <<>>)

\* variant: the scan always advances by two slots
RECURSIVE HourLoopStride(_, _, _)
HourLoopStride(list, i, result) ==
    IF i < Len(list)
    THEN IF slot_to_minutes(list[i + 1]) = slot_to_minutes(list[i]) + 30
         THEN HourLoopStride(list, i + 2,
                       Append(result, MakeLabel(SplitStart(list[i]), SplitEnd(list[i + 1]))))
         ELSE HourLoopStride(list, i + 2, result)
    ELSE result

find_hour_blocks_stride(list) == HourLoopStride(list, 1, <<>>)

find_hour_blocks(list) == HourLoop(list, 1, <<>>)

\* the dict {} and dict.get(key, [])
EmptyDict == [t \in {} |-> <<>>]

Get(dict, key) == IF key \in DOMAIN dict THEN dict[key] ELSE <<>>

\* selected_data is a dict in insertion order: a sequence of entries
\* [person |-> p, tage |-> day -> list]; persons = list(selected_data.keys())
RECURSIVE IntersectRest(_, _, _, _)
IntersectRest(set_slots, sd, k, tag) ==
    IF k > Len(sd)
    THEN set_slots
    ELSE IntersectRest(set_slots \cap Range(sd[k].tage[tag]), sd, k + 1, tag)

\* variant: the last chosen person is left out of the intersection
RECURSIVE IntersectRestButLast(_, _, _, _)
IntersectRestButLast(set_slots, sd, k, tag) ==
    IF k >= Len(sd)
    THEN set_slots
    ELSE IntersectRestButLast(set_slots \cap Range(sd[k].tage[tag]), sd, k + 1, tag)

\* variant: the sets are united instead of intersected
RECURSIVE UniteRest(_, _, _, _)
UniteRest(set_slots, sd, k, tag) ==
    IF k > Len(sd)
    THEN set_slots
    ELSE UniteRest(set_slots \cup Range(sd[k].tage[tag]), sd, k + 1, tag)

CommonSetButLast(sd, tag) == IntersectRestButLast(Range(sd[1].tage[tag]), sd, 2, tag)

CommonSetUnion(sd, tag) == UniteRest(Range(sd[1].tage[tag]), sd, 2, tag)

CommonSet(sd, tag) == IntersectRest(Range(sd[1].tage[tag]), sd, 2, tag)

CommonPerDay(sd, length) ==
    [tag \in TageSet |->
        LET halfhour == SortByStart(SetToList(CommonSet(sd, tag)))
        IN  IF length = 30 THEN halfhour ELSE find_hour_blocks(halfhour)]

\* variant: the guard is len(persons) < 1
find_common_slots_guard(sd, length) ==
    IF Len(sd) < 1 THEN EmptyDict ELSE CommonPerDay(sd, length)

find_common_slots(sd, length) ==
    IF Len(sd) < 2 THEN EmptyDict ELSE CommonPerDay(sd, length)

\* the exception a call of find_common_slots ends with, "none" when it returns:
\* selected_data[p][tag] raises KeyError for a person whose dict lacks a weekday
find_common_slots_raises(sd, length) ==
    IF Len(sd) >= 2 /\ \E k \in 1..Len(sd) : ~(TageSet \subseteq DOMAIN sd[k].tage)
    THEN "KeyError"
    ELSE "none"

-----------------------------------------------------------------------------
(* 2) Database functions.  A row is <<person, tag, slot>>; the table is    *)
(* the sequence of its rows in id order (AUTOINCREMENT), which is the      *)
(* order a full-table SELECT returns them in.                              *)

\* DELETE FROM verfuegbarkeit WHERE person = ?
DeleteRows(table, person) == SelectSeq(table, LAMBDA r : r[1] # person)

\* the rows the two nested for loops of save_availability insert, in order;
\* data_dict is built in TAGE order by the caller
RECURSIVE InsertRows(_, _, _)
InsertRows(person, data_dict, k) ==
    IF k > Len(TAGE)
    THEN <<>>
    ELSE [i \in 1..Len(data_dict[TAGE[k]]) |-> <<person, TAGE[k], data_dict[TAGE[k]][i]>>]
         \o InsertRows(person, data_dict, k + 1)

\* variant: the old rows of the person are kept
save_availability_keep(table, person, data_dict) ==
    table \o InsertRows(person, data_dict, 1)

save_availability(table, person, data_dict) ==
    DeleteRows(table, person) \o InsertRows(person, data_dict, 1)

delete_person(table, person) == DeleteRows(table, person)

\* data[person][tag] before the sort: the slots of the person's rows for tag
SlotsOf(table, person, tag) ==
    LET sel == SelectSeq(table, LAMBDA r : r[1] = person /\ r[2] = tag)
    IN  [i \in 1..Len(sel) |-> sel[i][3]]

load_data(table) ==
    [p \in {table[i][1] : i \in 1..Len(table)} |->
        [t \in TageSet |-> SortByStart(SlotsOf(table, p, t))]]

-----------------------------------------------------------------------------
(* Bounds and input sets                                                   *)

MaxGrid == 6        \* find_hour_blocks inputs use the first MaxGrid grid slots
MaxPersons == 3     \* persons in a selected_data argument
MaxDbPersons == 2   \* persons saving and deleting in the runs on one connection
MaxConcPersons == 1 \* persons saving and deleting in the concurrent runs
MaxListLen == 2     \* length of a saved day list

\* half-hour labels outside the grid: before its start, and off its raster
OffGridLabel == <<11, 30, 12, 0>>

OffGridHalfHours == {OffGridLabel, <<12, 15, 12, 45>>, <<13, 45, 14, 15>>}

BlockUniverse == Range(SubSeq(HALF_HOUR_SLOTS, 1, MaxGrid)) \cup OffGridHalfHours

SlotUniverse == {HALF_HOUR_SLOTS[1], HALF_HOUR_SLOTS[2], OffGridLabel}

ConcUniverse == {HALF_HOUR_SLOTS[1], HALF_HOUR_SLOTS[2]}

DayMasks == {TageSet, {"Montag", "Mittwoch"}}

TimeStrs == {<<h, m>> : h \in 0..23, m \in {0, 1, 15, 30, 45, 59}}

Lengths == {30, 60, 45, 90}

SortedLists(U) == {SortByStart(SetToList(X)) : X \in SUBSET U}

ListsUpTo(U, n) == UNION {[1..k -> U] : k \in 0..n}

SpreadOver(list, mask) == [t \in TageSet |-> IF t \in mask THEN list ELSE <<>>]

\* per-day lists as load_data delivers them: sorted by start; one of them
\* repeats a label, as the rows of a save with a repeated label load
LoadedDicts ==
    {SpreadOver(l, m) : l \in SortedLists(SlotUniverse), m \in DayMasks}
        \cup {SpreadOver(<<HALF_HOUR_SLOTS[1], HALF_HOUR_SLOTS[1], HALF_HOUR_SLOTS[2]>>, TageSet)}

\* data_dict arguments of save_availability: lists in any order with
\* repetitions allowed on two days, and every slot on all five days (what the
\* "Alle" buttons of the slot rows tick)
SavedDicts ==
    {SpreadOver(l, {"Montag", "Mittwoch"}) : l \in ListsUpTo(ConcUniverse, MaxListLen)}
        \cup {SpreadOver(SortByStart(SetToList(ConcUniverse)), TageSet)}

ConcDicts == {SpreadOver(l, {"Montag"}) : l \in SortedLists(ConcUniverse)}

DbPersons == Range(SubSeq(PERSONEN, 1, MaxDbPersons))

ConcPersons == Range(SubSeq(PERSONEN, 1, MaxConcPersons))

Conns == {"c1", "c2"}

EmptyAvail == [t \in TageSet |-> <<>>]

NoData == load_data(<<>>)

IdleConn == [pc |-> "start", view |-> <<>>, todo |-> <<>>, person |-> "",
             data |-> NoData, during |-> {}]

GridIdle == start_str = <<0, 0>> /\ end_str = <<0, 0>> /\ slots = <<>>

BlocksIdle == halfhour_list = <<>> /\ blocks = <<>>

CommonIdle ==
    /\ selected_data = <<>>
    /\ meeting_length = 30
    /\ common = EmptyDict
    /\ raised = "none"

DbIdle ==
    /\ rows = <<>>
    /\ data = NoData
    /\ lastSave = [p \in DbPersons |-> EmptyAvail]
    /\ conn = [c \in Conns |-> IdleConn]

gridVars == <<start_str, end_str, slots>>

blockVars == <<halfhour_list, blocks>>

commonVars == <<selected_data, meeting_length, common, raised>>

dbVars == <<rows, data, lastSave, conn>>

-----------------------------------------------------------------------------
(* Calls of the pure functions                                             *)

InitGrid ==
    /\ pc = "call"
    /\ start_str \in TimeStrs
    /\ end_str \in TimeStrs
    /\ slots = <<>>
    /\ BlocksIdle /\ CommonIdle /\ DbIdle

GenerateHalfhourSlots ==
    /\ pc = "call"
    /\ slots' = generate_halfhour_slots(start_str, end_str)
    /\ pc' = "done"
    /\ UNCHANGED <<start_str, end_str, blockVars, commonVars, dbVars>>

SpecGrid == InitGrid /\ [][GenerateHalfhourSlots]_vars

InitBlocks ==
    /\ pc = "call"
    /\ halfhour_list \in SortedLists(BlockUniverse)
    /\ blocks = <<>>
    /\ GridIdle /\ CommonIdle /\ DbIdle

FindHourBlocks ==
    /\ pc = "call"
    /\ blocks' = find_hour_blocks(halfhour_list)
    /\ pc' = "done"
    /\ UNCHANGED <<halfhour_list, gridVars, commonVars, dbVars>>

SpecBlocks == InitBlocks /\ [][FindHourBlocks]_vars

InitCommon ==
    /\ pc = "call"
    /\ \E n \in 0..MaxPersons : \E f \in [1..n -> LoadedDicts] :
          selected_data = [k \in 1..n |-> [person |-> PERSONEN[k], tage |-> f[k]]]
    /\ meeting_length \in Lengths
    /\ common = EmptyDict
    /\ raised = "none"
    /\ GridIdle /\ BlocksIdle /\ DbIdle

FindCommonSlots ==
    /\ pc = "call"
    /\ common' = find_common_slots(selected_data, meeting_length)
    /\ raised' = find_common_slots_raises(selected_data, meeting_length)
    /\ pc' = "done"
    /\ UNCHANGED <<selected_data, meeting_length, gridVars, blockVars, dbVars>>

SpecCommon == InitCommon /\ [][FindCommonSlots]_vars

-----------------------------------------------------------------------------
(* Properties of the pure functions                                        *)

EndMinutes(label) == SplitEnd(label)[1] * 60 + SplitEnd(label)[2]

WellFormed(label) ==
    /\ label[1] \in 0..23 /\ label[2] \in 0..59
    /\ label[3] \in 0..23 /\ label[4] \in 0..59

AscendingByStart(list) ==
    \A i \in 1..Len(list) : \A j \in 1..Len(list) :
        i < j => slot_to_minutes(list[i]) <= slot_to_minutes(list[j])

\* C8: generate_halfhour_slots(start, end) returns floor((end - start) / 30)
\* labels (none when start >= end, a trailing partial unit is dropped); label
\* k starts 30 * (k - 1) minutes after start and ends 30 minutes later, so
\* each starts where the previous one ends; ("12:00", "21:30") gives the 19
\* labels from "12:00-12:30" to "21:00-21:30".
C8_GridLabels ==
    pc = "done" =>
        LET s == strptime(start_str)
            e == strptime(end_str)
            n == IF s >= e THEN 0 ELSE (e - s) \div 30
        IN  /\ Len(slots) = n
            /\ \A k \in 1..Len(slots) :
                  /\ WellFormed(slots[k])
                  /\ slot_to_minutes(slots[k]) = s + 30 * (k - 1)
                  /\ EndMinutes(slots[k]) = s + 30 * k
            /\ (start_str = <<12, 0>> /\ end_str = <<21, 30>> =>
                  /\ Len(slots) = 19
                  /\ slots[1] = <<12, 0, 12, 30>>
                  /\ slots[19] = <<21, 0, 21, 30>>)

C8_Witness ==
    /\ pc = "done"
    /\ start_str = <<12, 0>> /\ end_str = <<21, 45>>
    /\ Len(slots) = 19
    /\ slots[19] = <<21, 0, 21, 30>>

\* the position of the input slot a block starts with
FirstOf(block) ==
    CHOOSE i \in 1..Len(halfhour_list) :
        SplitStart(halfhour_list[i]) = SplitStart(block)

\* C2: every block find_hour_blocks returns for distinct half-hour labels
\* sorted by start is the merge of two neighbouring input slots, the second
\* starting when the first ends, labelled from the first's start to the
\* second's end (60 minutes); no input slot belongs to two blocks, and no
\* input slot is emitted unmerged.
C2_BlocksArePairs ==
    pc = "done" =>
        /\ \A k \in 1..Len(blocks) :
              \E i \in 1..(Len(halfhour_list) - 1) :
                  /\ blocks[k] = MakeLabel(SplitStart(halfhour_list[i]),
                                           SplitEnd(halfhour_list[i + 1]))
                  /\ slot_to_minutes(halfhour_list[i + 1]) = EndMinutes(halfhour_list[i])
                  /\ EndMinutes(blocks[k]) - slot_to_minutes(blocks[k]) = 60
        /\ \A k1 \in 1..Len(blocks) : \A k2 \in 1..Len(blocks) :
              k1 # k2 =>
                  {FirstOf(blocks[k1]), FirstOf(blocks[k1]) + 1}
                      \cap {FirstOf(blocks[k2]), FirstOf(blocks[k2]) + 1} = {}
        /\ \A k \in 1..Len(blocks) : blocks[k] \notin Range(halfhour_list)

C2_Witness ==
    /\ pc = "done"
    /\ halfhour_list = <<OffGridLabel, HALF_HOUR_SLOTS[1], HALF_HOUR_SLOTS[2],
                         HALF_HOUR_SLOTS[4]>>
    /\ blocks = <<<<11, 30, 12, 30>>>>

\* pairs of temporally adjacent slots of a set of labels
AdjacentPairs(S) == {pr \in S \X S : slot_to_minutes(pr[2]) = EndMinutes(pr[1])}

PairwiseDisjoint(M) ==
    \A a \in M : \A b \in M : a # b => {a[1], a[2]} \cap {b[1], b[2]} = {}

MaxDisjointPairs(S) ==
    LET sizes == {Cardinality(M) : M \in {X \in SUBSET AdjacentPairs(S) : PairwiseDisjoint(X)}}
    IN  CHOOSE n \in sizes : \A m \in sizes : m <= n

\* C3: for distinct grid labels sorted by start, find_hour_blocks returns as
\* many blocks as the largest set of pairwise disjoint pairs of adjacent
\* input slots has.
C3_GreedyIsMaximum ==
    pc = "done" /\ Range(halfhour_list) \subseteq Range(HALF_HOUR_SLOTS) =>
        Len(blocks) = MaxDisjointPairs(Range(halfhour_list))

C3_Witness ==
    /\ pc = "done"
    /\ halfhour_list = SubSeq(HALF_HOUR_SLOTS, 1, 3) \o SubSeq(HALF_HOUR_SLOTS, 5, 5)
    /\ Len(blocks) = 1
    /\ MaxDisjointPairs(Range(halfhour_list)) = 1

InEveryList(sd, tag) ==
    {x \in UNION {Range(sd[k].tage[tag]) : k \in 1..Len(sd)} :
        \A k \in 1..Len(sd) : x \in Range(sd[k].tage[tag])}

\* C1: with at least two persons and meeting_length 30, find_common_slots
\* returns for every weekday exactly the labels present in every person's
\* list of that day, each once, ascending by start time; a day without a
\* common label gets the empty list and nothing is raised.
C1_CommonIsIntersection ==
    pc = "done" /\ Len(selected_data) >= 2 /\ meeting_length = 30 =>
        /\ raised = "none"
        /\ DOMAIN common = TageSet
        /\ \A t \in TageSet :
              /\ Range(common[t]) = InEveryList(selected_data, t)
              /\ Len(common[t]) = Cardinality(InEveryList(selected_data, t))
              /\ AscendingByStart(common[t])

C1_Witness ==
    /\ pc = "done" /\ Len(selected_data) = 3 /\ meeting_length = 30
    /\ common["Montag"] = <<HALF_HOUR_SLOTS[1], HALF_HOUR_SLOTS[2]>>
    /\ common["Dienstag"] = <<>>
    /\ \E k \in 1..3 : OffGridLabel \in Range(selected_data[k].tage["Montag"])
    /\ \E k \in 1..3 : selected_data[k].tage["Dienstag"] # <<>>

\* C4: with fewer than two persons find_common_slots raises nothing and the
\* caller's common.get(t, []) reads an empty list for each of the five days.
C4_FewerThanTwoIsEmpty ==
    pc = "done" /\ Len(selected_data) < 2 =>
        /\ raised = "none"
        /\ \A k \in 1..Len(TAGE) : Get(common, TAGE[k]) = <<>>

C4_Witness ==
    /\ pc = "done" /\ Len(selected_data) = 1
    /\ selected_data[1].tage["Montag"] # <<>>
    /\ common = EmptyDict

\* C5: a meeting_length other than 30 or 60 ends find_common_slots with an
\* InvalidConfiguration error.
C5_InvalidLengthRejected ==
    pc = "done" /\ Len(selected_data) >= 2 /\ meeting_length \notin {30, 60} =>
        raised = "InvalidConfiguration"

\* the entries of selected_data for the persons in P, in their order
Restrict(sd, P) == SelectSeq(sd, LAMBDA e : e.person \in P)

PersonsOf(sd) == {sd[k].person : k \in 1..Len(sd)}

ContainedIn(P) ==
    LET over_subset == find_common_slots(Restrict(selected_data, P), 30)
    IN  \A t \in TageSet : Range(Get(common, t)) \subseteq Range(Get(over_subset, t))

\* C6 as stated: the 30-minute result over the chosen persons is contained,
\* day by day, in the result over any subset of them, of any size.
C6_MonotoneAnySubset ==
    pc = "done" /\ meeting_length = 30 =>
        \A P \in SUBSET PersonsOf(selected_data) : ContainedIn(P)

\* C6 amended: the 30-minute result over the chosen persons is contained,
\* day by day, in the result over any subset of at least two of them.
C6_MonotoneSubsetsOfTwo ==
    pc = "done" /\ meeting_length = 30 =>
        \A P \in SUBSET PersonsOf(selected_data) :
            Cardinality(P) >= 2 => ContainedIn(P)

C6_Witness ==
    /\ pc = "done" /\ meeting_length = 30 /\ Len(selected_data) = 3
    /\ common["Montag"] = <<HALF_HOUR_SLOTS[1]>>
    /\ \E P \in SUBSET PersonsOf(selected_data) :
          /\ Cardinality(P) = 2
          /\ Len(find_common_slots(Restrict(selected_data, P), 30)["Montag"]) = 3

\* C7: every label of every weekday's 30-minute result is a label of
\* HALF_HOUR_SLOTS, whatever the persons' lists hold, and nothing is raised.
C7_ResultOnGrid ==
    pc = "done" /\ meeting_length = 30 =>
        /\ raised = "none"
        /\ \A t \in DOMAIN common : Range(common[t]) \subseteq Range(HALF_HOUR_SLOTS)

-----------------------------------------------------------------------------
(* Script runs of main on one connection: a run that saves stores the      *)
(* person's data_dict and then loads; a run that deletes is followed by    *)
(* st.rerun(), whose run loads again.                                      *)

pureVars == <<gridVars, blockVars, commonVars>>

InitDb ==
    /\ pc = "db"
    /\ DbIdle
    /\ GridIdle /\ BlocksIdle /\ CommonIdle

SaveRun(person, data_dict) ==
    /\ rows' = save_availability(rows, person, data_dict)
    /\ data' = load_data(rows')
    /\ lastSave' = [lastSave EXCEPT ![person] = data_dict]
    /\ UNCHANGED <<pc, conn, pureVars>>

DeleteRun(person) ==
    /\ person \in DOMAIN data
    /\ rows' = delete_person(rows, person)
    /\ data' = load_data(rows')
    /\ lastSave' = [lastSave EXCEPT ![person] = EmptyAvail]
    /\ UNCHANGED <<pc, conn, pureVars>>

NextDb ==
    \/ \E p \in DbPersons : \E d \in SavedDicts : SaveRun(p, d)
    \/ \E p \in DbPersons : DeleteRun(p)

SpecDb == InitDb /\ [][NextDb]_vars

-----------------------------------------------------------------------------
(* Script runs on separate connections (init_db opens one per run).  The   *)
(* statements of a run are single steps.  sqlite3 opens a transaction      *)
(* before the first DELETE or INSERT of a connection and holds the         *)
(* database's write lock until conn.commit(); the statements of an open    *)
(* transaction change the connection's own view only.                      *)

InTransaction(c) == conn[c].pc \in {"saving", "deleting"}

WriteLockFree(c) == \A o \in Conns \ {c} : ~InTransaction(o)

\* variant: every run reads through the connection that holds the open
\* transaction (one shared connection instead of one per run)
ReadViewShared(c) ==
    IF \E o \in Conns : InTransaction(o)
    THEN conn[CHOOSE o \in Conns : InTransaction(o)].view
    ELSE rows

\* the table content a SELECT on connection c reads
ReadView(c) == IF InTransaction(c) THEN conn[c].view ELSE rows

PersonRecord(d, person) == IF person \in DOMAIN d THEN d[person] ELSE EmptyAvail

\* history: the saves of other connections that are open while c loads, each
\* with the person's record before the save and after it
OpenSaves(c) ==
    {[person  |-> conn[w].person,
      before  |-> PersonRecord(load_data(rows), conn[w].person),
      after   |-> PersonRecord(load_data(conn[w].view \o conn[w].todo), conn[w].person),
      partial |-> /\ conn[w].todo # <<>>
                  /\ Len(conn[w].view) > Len(DeleteRows(rows, conn[w].person))]
        : w \in {o \in Conns \ {c} : conn[o].pc = "saving"}}

InitConc ==
    /\ pc = "runs"
    /\ DbIdle
    /\ GridIdle /\ BlocksIdle /\ CommonIdle

SaveDelete(c, person, data_dict) ==
    /\ conn[c].pc = "start"
    /\ WriteLockFree(c)
    /\ conn' = [conn EXCEPT ![c] = [IdleConn EXCEPT
                   !.pc = "saving",
                   !.view = DeleteRows(rows, person),
                   !.todo = InsertRows(person, data_dict, 1),
                   !.person = person]]
    /\ UNCHANGED <<pc, rows, data, lastSave, pureVars>>

SaveInsert(c) ==
    /\ conn[c].pc = "saving"
    /\ conn[c].todo # <<>>
    /\ conn' = [conn EXCEPT ![c].view = Append(@, Head(conn[c].todo)),
                            ![c].todo = Tail(@)]
    /\ UNCHANGED <<pc, rows, data, lastSave, pureVars>>

SaveCommit(c) ==
    /\ conn[c].pc = "saving"
    /\ conn[c].todo = <<>>
    /\ rows' = conn[c].view
    /\ conn' = [conn EXCEPT ![c] = [IdleConn EXCEPT !.pc = "saved"]]
    /\ UNCHANGED <<pc, data, lastSave, pureVars>>

LoadData(c) ==
    /\ conn[c].pc \in {"start", "saved"}
    /\ conn' = [conn EXCEPT ![c] = [IdleConn EXCEPT
                   !.pc = "loaded",
                   !.data = load_data(ReadView(c)),
                   !.during = OpenSaves(c)]]
    /\ UNCHANGED <<pc, rows, data, lastSave, pureVars>>

DeleteExecute(c, person) ==
    /\ conn[c].pc = "loaded"
    /\ person \in DOMAIN conn[c].data
    /\ WriteLockFree(c)
    /\ conn' = [conn EXCEPT ![c].pc = "deleting",
                            ![c].view = DeleteRows(rows, person),
                            ![c].person = person]
    /\ UNCHANGED <<pc, rows, data, lastSave, pureVars>>

DeleteCommit(c) ==
    /\ conn[c].pc = "deleting"
    /\ rows' = conn[c].view
    /\ conn' = [conn EXCEPT ![c] = IdleConn]
    /\ UNCHANGED <<pc, data, lastSave, pureVars>>

Rerun(c) ==
    /\ conn[c].pc = "loaded"
    /\ conn' = [conn EXCEPT ![c] = IdleConn]
    /\ UNCHANGED <<pc, rows, data, lastSave, pureVars>>

NextConc ==
    \E c \in Conns :
        \/ \E p \in ConcPersons : \E d \in ConcDicts : SaveDelete(c, p, d)
        \/ SaveInsert(c)
        \/ SaveCommit(c)
        \/ LoadData(c)
        \/ \E p \in ConcPersons : DeleteExecute(c, p)
        \/ DeleteCommit(c)
        \/ Rerun(c)

SpecConc == InitConc /\ [][NextConc]_vars

-----------------------------------------------------------------------------
(* Properties of the database runs                                         *)

Count(x, list) == Cardinality({i \in 1..Len(list) : list[i] = x})

SameItems(a, b) == \A x \in Range(a) \cup Range(b) : Count(x, a) = Count(x, b)

LoadedIsLastSave ==
    /\ DOMAIN data \subseteq DbPersons
    /\ \A p \in DbPersons :
          IF lastSave[p] = EmptyAvail
          THEN p \notin DOMAIN data
          ELSE /\ p \in DOMAIN data
               /\ DOMAIN data[p] = TageSet
               /\ \A t \in TageSet :
                     /\ SameItems(data[p][t], lastSave[p][t])
                     /\ AscendingByStart(data[p][t])

\* a run for one person changes lastSave of that person only, so this covers
\* every person other than the one saved or deleted
OthersUntouched ==
    \A q \in DbPersons :
        lastSave'[q] = lastSave[q] =>
            /\ (q \in DOMAIN data') = (q \in DOMAIN data)
            /\ PersonRecord(data', q) = PersonRecord(data, q)

\* C9: after any saves and deletes, load_data holds for each person exactly
\* the slots of the person's latest save, per weekday and ascending by start,
\* unless the person was deleted since, never saved, or saved without slots,
\* and then the person is absent; a save or delete for one person leaves the
\* loaded records of the others as they were.
C9_LoadReturnsLastSave == []LoadedIsLastSave /\ [][OthersUntouched]_vars

C9_Witness ==
    /\ lastSave["Dodi"]["Montag"] = <<HALF_HOUR_SLOTS[2], HALF_HOUR_SLOTS[1]>>
    /\ data["Dodi"]["Montag"] = <<HALF_HOUR_SLOTS[1], HALF_HOUR_SLOTS[2]>>
    /\ data["Dodi"]["Dienstag"] = <<>>
    /\ "Noah" \in DOMAIN data
    /\ rows[1][1] = "Noah" /\ rows[Len(rows)][1] = "Dodi"

=============================================================================
